---- MODULE Spec2Model ----
(***************************************************************************)
(* Photo mosaic generator: generatePhotoMosaicByTile.py (nearest match)    *)
(* and generatePhotoMosaicCyclePhotos.py (nearest match with round-robin   *)
(* cycling inside a colour group).  One run of generate_mosaic is modelled *)
(* as a state machine; policy says which of the two scripts is running.    *)
(*                                                                         *)
(* Conventions.  Python lists are sequences; Python indices are 0-based    *)
(* and are kept 0-based in the state (At(s, i) reads s[i]).  A tile image  *)
(* is identified by the number of the file it was decoded from.  A colour  *)
(* is a triple <<r, g, b>>.  A float resolution factor is the fraction     *)
(* <<num, den>>, den > 0, and float arithmetic is exact.                   *)
(*                                                                         *)
(* get_average_rgb (both scripts) and prepare_directories / main of        *)
(* adjustTilesBasic6Colors.py have specifications of their own, on         *)
(* variables of their own.                                                 *)
(***************************************************************************)
EXTENDS Integers, Sequences, FiniteSets, TLC

VARIABLES
    policy,                 \* "nearest" (ByTile) or "cycling" (CyclePhotos)
    pc,                     \* position inside generate_mosaic
    base_file,              \* the base image file: [exists, size, solid, split]
    source,                 \* tile source: [kind, files]
    tile_size,              \* <<tile_w, tile_h>>
    factor,                 \* grid_resolution_factor as <<num, den>>
    base_size,              \* <<base_width, base_height>> once loaded
    tiles,                  \* list of loaded tile images
    tile_avg_colors,        \* list of their average colours
    warnings,               \* files skipped with a warning, in order
    color_to_indices_map,   \* cycling: colour -> [indices, next_idx]
    unique_colors_list,     \* cycling: keys of the map in insertion order
    kdtree,                 \* [data, order]
    grid,                   \* <<grid_w, grid_h>>
    base_small_for_avg,     \* cell <<c, r>> -> colour
    mosaic_size,            \* <<mosaic_width, mosaic_height>>
    mosaic_image,           \* pixel <<x, y>> -> Blank or <<tile, i, j>>
    r,                      \* grid row of the assembly loop
    c,                      \* grid column of the assembly loop
    processed_cells,        \* cells pasted so far
    calls,                  \* find_best_match_tile calls made, see CallRecord
    saved,                  \* size of the image written, NoSize before
    err,                    \* None, or the exception raised
    outcome,                \* "running", "returned" or "exit1"
    image,                  \* get_average_rgb: the pixels of the image, row after row
    avg_color,              \* get_average_rgb: the tuple returned
    input_dir,              \* adjustTiles: state of INPUT_DIR
    output_dir,             \* adjustTiles: OUTPUT_DIR as [kind, files, subdirs, readable]
    archive_dir,            \* adjustTiles: ARCHIVE_OUTPUT_DIR as [exists, archives]
    prep_pc,                \* adjustTiles: position inside main / prepare_directories
    file_count,             \* adjustTiles: len(output_files)
    should_archive,         \* adjustTiles: should_archive
    answers,                \* adjustTiles: what the user typed, see Answer
    prep_result,            \* adjustTiles: what prepare_directories returned
    processed_files_count,  \* adjustTiles: processed_files_count of main
    final_archive           \* adjustTiles: create_archive was called

\* the variables of a render
render_vars == <<policy, pc, base_file, source, tile_size, factor,
          base_size, tiles, tile_avg_colors, warnings, color_to_indices_map,
          unique_colors_list, kdtree, grid, base_small_for_avg, mosaic_size,
          mosaic_image, r, c, processed_cells, calls, saved, err, outcome>>

\* the variables of get_average_rgb and of adjustTilesBasic6Colors.py
tool_vars == <<image, avg_color, input_dir, output_dir, archive_dir, prep_pc,
               file_count, should_archive, answers, prep_result,
               processed_files_count, final_archive>>

vars == <<render_vars, tool_vars>>

None == "None"          \* no exception
Blank == <<>>           \* a pixel nothing was pasted on
Corrupt == <<>>         \* a file that does not decode
NoGroup == <<>>         \* no colour group was matched
NoTile == -1
NoSize == <<0, 0>>
NoColour == <<>>        \* get_average_rgb has not returned
NoDir == [kind |-> "absent", files |-> 0, subdirs |-> 0, readable |-> FALSE]
EmptyTree == [data |-> <<>>, order |-> <<>>]

\* ---------------------------------------------------------------- bounds
MaxChan == 2          \* largest channel value of the colours drawn
MaxFiles == 3         \* candidate files in a tile source
MaxStrip == 3         \* base width when the tile source is varied
MaxBase == 2          \* base width and height when the geometry is varied
MaxTileSide == 2      \* tile width and height when the geometry is varied
MaxFactorNum == 2     \* numerator of the resolution factor
MaxFactorDen == 2     \* denominator of the resolution factor
MaxCalls == 3         \* calls of find_best_match_tile made one after another
MaxPixels == 3        \* pixels of an image handed to get_average_rgb
MaxAnswers == 3       \* answers typed before only Y or N are typed

Black == <<0, 0, 0>>
Red == <<MaxChan, 0, 0>>
Blue == <<0, 0, MaxChan>>
DarkRed == <<1, 0, 0>>

TileColours == {Black, Red, Blue}
Targets == {DarkRed, Blue}

\* ---------------------------------------------------------------- helpers
At(s, i) == s[i + 1]

Range(s) == {s[i] : i \in DOMAIN s}

Max(a, b) == IF a >= b THEN a ELSE b

SeqsUpTo(S, n) == UNION {[1..k -> S] : k \in 0..n}

Perms(n) == {p \in [1..n -> 0..(n - 1)] : \A i, j \in 1..n : p[i] = p[j] => i = j}

\* ---------------------------------------------------------------- loading
\* One pass of the loading loop: a file that fails to decode is skipped with a
\* warning, any other file is appended together with its average colour.
LoadStep(acc, n, f) ==
    IF f = Corrupt
        THEN [acc EXCEPT !.warnings = Append(@, n)]
        ELSE [acc EXCEPT !.tiles = Append(@, n), !.avg_colors = Append(@, f)]

RECURSIVE LoadLoop_AbortOnFailure(_, _, _)
LoadLoop_AbortOnFailure(files, n, acc) ==
    IF n >= Len(files) \/ At(files, n) = Corrupt THEN acc
    ELSE LoadLoop_AbortOnFailure(files, n + 1, LoadStep(acc, n, At(files, n)))

RECURSIVE LoadLoop(_, _, _)
LoadLoop(files, n, acc) ==
    IF n >= Len(files) THEN acc
    ELSE LoadLoop(files, n + 1, LoadStep(acc, n, At(files, n)))

load_tile_images_ReturnsEmpty(src) ==
    LET empty == [tiles |-> <<>>, avg_colors |-> <<>>, warnings |-> <<>>]
        got == IF src.kind \in {"dir", "zip"} THEN LoadLoop(src.files, 0, empty) ELSE empty
    IN  [raised |-> src.kind \notin {"dir", "zip"},
         tiles |-> got.tiles,
         avg_colors |-> got.avg_colors,
         warnings |-> got.warnings]

\* load_tile_images: [raised, tiles, avg_colors, warnings]
load_tile_images(src) ==
    LET empty == [tiles |-> <<>>, avg_colors |-> <<>>, warnings |-> <<>>]
        got == IF src.kind \in {"dir", "zip"} THEN LoadLoop(src.files, 0, empty) ELSE empty
    IN  [raised |-> src.kind \notin {"dir", "zip"} \/ got.tiles = <<>>,
         tiles |-> got.tiles,
         avg_colors |-> got.avg_colors,
         warnings |-> got.warnings]

\* ---------------------------------------------------------------- grouping
\* a tile joins its group at the front of the list
GroupStep_Prepend(acc, i, col) ==
    IF col \notin DOMAIN acc.map
        THEN [map |-> [k \in DOMAIN acc.map \cup {col} |->
                          IF k = col THEN [indices |-> <<i>>, next_idx |-> 0]
                          ELSE acc.map[k]],
              keys |-> Append(acc.keys, col)]
        ELSE [acc EXCEPT !.map[col].indices = <<i>> \o @]

\* the key of a group is the colour rounded down to a multiple of 256, so
\* that colours that differ share a group
GroupStep_Coarse(acc, i, col) ==
    LET key == [k \in 1..3 |-> 256 * (col[k] \div 256)]
    IN  IF key \notin DOMAIN acc.map
            THEN [map |-> [k \in DOMAIN acc.map \cup {key} |->
                              IF k = key THEN [indices |-> <<i>>, next_idx |-> 0]
                              ELSE acc.map[k]],
                  keys |-> Append(acc.keys, key)]
            ELSE [acc EXCEPT !.map[key].indices = Append(@, i)]

\* one pass of the grouping loop: a colour seen for the first time opens a
\* group with cursor 0, a colour seen before gets the tile appended
GroupStep(acc, i, col) ==
    IF col \notin DOMAIN acc.map
        THEN [map |-> [k \in DOMAIN acc.map \cup {col} |->
                          IF k = col THEN [indices |-> <<i>>, next_idx |-> 0]
                          ELSE acc.map[k]],
              keys |-> Append(acc.keys, col)]
        ELSE [acc EXCEPT !.map[col].indices = Append(@, i)]

RECURSIVE GroupLoop(_, _, _)
GroupLoop(cols, i, acc) ==
    IF i >= Len(cols) THEN acc
    ELSE GroupLoop(cols, i + 1, GroupStep(acc, i, At(cols, i)))

\* the grouping loop of generate_mosaic (cycling): [map, keys]
GroupTilesByColor(cols) == GroupLoop(cols, 0, [map |-> <<>>, keys |-> <<>>])

\* ---------------------------------------------------------------- index
SqDist(a, b) ==
    (a[1] - b[1]) * (a[1] - b[1]) + (a[2] - b[2]) * (a[2] - b[2])
        + (a[3] - b[3]) * (a[3] - b[3])

\* The tree keeps the points it was given and visits them in its own order.
KDTree(data, order) == [data |-> data, order |-> order]

\* a point at the same distance replaces the best one
Closer_OrEqual(tree, target, i, best) ==
    best = -1 \/ SqDist(At(tree.data, i), target) <= SqDist(At(tree.data, best), target)

\* the comparison is the wrong way round
Closer_Farther(tree, target, i, best) ==
    best = -1 \/ SqDist(At(tree.data, i), target) > SqDist(At(tree.data, best), target)

Closer(tree, target, i, best) ==
    best = -1 \/ SqDist(At(tree.data, i), target) < SqDist(At(tree.data, best), target)

RECURSIVE KDScan(_, _, _, _)
KDScan(tree, target, k, best) ==
    IF k > Len(tree.order) THEN best
    ELSE KDScan(tree, target, k + 1,
                IF Closer(tree, target, tree.order[k], best) THEN tree.order[k] ELSE best)

QueryRaises(tree, target) == Len(target) # 3 \/ Len(tree.data) = 0

\* tree.query(target, k=1): the index of the nearest point
KDQuery(tree, target) == KDScan(tree, target, 1, -1)

\* ---------------------------------------------------------------- selection
\* what a call does: the tile returned (or the raise), the map it leaves, the
\* colour it matched, the cursor it read and the message it printed
Pick(tile, map, matched, cursor, raised, msg) ==
    [tile |-> tile, map |-> map, matched |-> matched, cursor |-> cursor,
     raised |-> raised, msg |-> msg]

\* the tile next to the nearest one is taken on every other call
find_best_match_tile_nearest_Rotating(target, tree, tls) ==
    IF QueryRaises(tree, target)
        THEN Pick(NoTile, <<>>, NoGroup, -1, TRUE, "error")
        ELSE Pick(At(tls, (KDQuery(tree, target) + Len(calls)) % Len(tls)), <<>>,
                  At(tree.data, KDQuery(tree, target)), -1, FALSE, "none")

\* a failed query is raised to the caller whatever the tile list holds
find_best_match_tile_nearest_NoFallback(target, tree, tls) ==
    IF QueryRaises(tree, target)
        THEN Pick(NoTile, <<>>, NoGroup, -1, TRUE, "error")
        ELSE Pick(At(tls, KDQuery(tree, target)), <<>>,
                  At(tree.data, KDQuery(tree, target)), -1, FALSE, "none")

\* the first call made returns the first tile whatever the target
find_best_match_tile_nearest_FirstCall(target, tree, tls) ==
    IF QueryRaises(tree, target)
        THEN Pick(NoTile, <<>>, NoGroup, -1, TRUE, "error")
        ELSE IF calls = <<>>
                THEN Pick(At(tls, 0), <<>>, At(tree.data, KDQuery(tree, target)), -1,
                          FALSE, "none")
                ELSE Pick(At(tls, KDQuery(tree, target)), <<>>,
                          At(tree.data, KDQuery(tree, target)), -1, FALSE, "none")

\* find_best_match_tile of generatePhotoMosaicByTile.py
find_best_match_tile_nearest(target, tree, tls) ==
    IF QueryRaises(tree, target)
        THEN IF tls # <<>>
                THEN Pick(At(tls, 0), <<>>, NoGroup, -1, FALSE, "error")
                ELSE Pick(NoTile, <<>>, NoGroup, -1, TRUE, "error")
        ELSE Pick(At(tls, KDQuery(tree, target)), <<>>,
                  At(tree.data, KDQuery(tree, target)), -1, FALSE, "none")

\* the counter goes back to the first member of the group
NextIdx_Reset(current_group_idx, n) == 0

\* the counter is not incremented
NextIdx_Stuck(current_group_idx, n) == current_group_idx

\* the counter is incremented without wrapping around
NextIdx_NoWrap(current_group_idx, n) == current_group_idx + 1

\* the counter skips a member of the group
NextIdx_Skip(current_group_idx, n) == (current_group_idx + 2) % n

\* group_info['next_idx'] = (current_group_idx + 1) % len(original_tile_indices)
NextIdx(current_group_idx, n) == (current_group_idx + 1) % n

\* every group's counter is incremented by a matching call
find_best_match_tile_cycling_AdvancesAll(target, tree, ucl, tls, map) ==
    IF QueryRaises(tree, target)
        THEN IF tls # <<>>
                THEN Pick(At(tls, 0), map, NoGroup, -1, FALSE, "error")
                ELSE Pick(NoTile, map, NoGroup, -1, TRUE, "error")
        ELSE LET matched_unique_color == At(ucl, KDQuery(tree, target))
                 group_info == map[matched_unique_color]
             IN  Pick(At(tls, At(group_info.indices, group_info.next_idx)),
                      [k \in DOMAIN map |->
                          [map[k] EXCEPT !.next_idx = NextIdx(@, Len(map[k].indices))]],
                      matched_unique_color, group_info.next_idx, FALSE, "none")

\* find_best_match_tile of generatePhotoMosaicCyclePhotos.py
find_best_match_tile_cycling(target, tree, ucl, tls, map) ==
    IF QueryRaises(tree, target)
        THEN IF tls # <<>>
                THEN IF /\ ucl # <<>>
                        /\ At(ucl, 0) \in DOMAIN map
                        /\ map[At(ucl, 0)].indices # <<>>
                        THEN Pick(At(tls, At(map[At(ucl, 0)].indices, 0)), map, NoGroup, -1,
                                  FALSE, "error")
                        ELSE Pick(At(tls, 0), map, NoGroup, -1, FALSE, "error")
                ELSE Pick(NoTile, map, NoGroup, -1, TRUE, "error")
        ELSE LET matched_unique_color == At(ucl, KDQuery(tree, target))
             IN  IF \/ matched_unique_color \notin DOMAIN map
                    \/ map[matched_unique_color].indices = <<>>
                    THEN Pick(At(tls, 0), map, NoGroup, -1, FALSE, "warning")
                    ELSE LET group_info == map[matched_unique_color]
                             original_tile_indices == group_info.indices
                             current_group_idx == group_info.next_idx
                         IN  Pick(At(tls, At(original_tile_indices, current_group_idx)),
                                  [map EXCEPT ![matched_unique_color].next_idx =
                                       NextIdx(current_group_idx, Len(original_tile_indices))],
                                  matched_unique_color, current_group_idx, FALSE, "none")

\* ---------------------------------------------------------------- grid
\* int(x) of Python for x = num / den, den > 0: truncation towards zero
PyInt(num, den) == IF num >= 0 THEN num \div den ELSE -((-num) \div den)

\* the result of int() is not clamped
GridDim_NoClamp(base, tile, f) == PyInt(base * f[1], tile * f[2])

\* the result of int() is clamped at 0
GridDim_ClampAtZero(base, tile, f) == Max(0, PyInt(base * f[1], tile * f[2]))

\* max(1, int(base / tile * grid_resolution_factor))
GridDim(base, tile, f) == Max(1, PyInt(base * f[1], tile * f[2]))

\* tile width and tile height are swapped
mosaic_dims_Swapped(g, ts) == <<g[1] * ts[2], g[2] * ts[1]>>

\* mosaic_width = grid_w * tile_w, mosaic_height = grid_h * tile_h
mosaic_dims(g, ts) == <<g[1] * ts[1], g[2] * ts[2]>>

Cells(g) == {<<col, row>> : col \in 0..(g[1] - 1), row \in 0..(g[2] - 1)}

Pixels(sz) == {<<x, y>> : x \in 0..(sz[1] - 1), y \in 0..(sz[2] - 1)}

\* column and row are swapped
PasteAt_Swapped(col, row, ts) == <<row * ts[1], col * ts[2]>>

\* the tile width is used for both offsets
PasteAt_TileWidth(col, row, ts) == <<col * ts[1], row * ts[1]>>

\* paste_x = c * tile_w, paste_y = r * tile_h
PasteAt(col, row, ts) == <<col * ts[1], row * ts[2]>>

\* the two loops are nested the other way round
NextCell_ColumnMajor(col, row, g) ==
    IF row + 1 < g[2] THEN <<col, row + 1>> ELSE <<col + 1, 0>>

\* for r in range(grid_h): for c in range(grid_w): the cell after <<col, row>>
\* the row after the next one is taken at the end of a row
NextCell_SkipsRow(col, row, g) == IF col + 1 < g[1] THEN <<col + 1, row>> ELSE <<0, row + 2>>

NextCell(col, row, g) == IF col + 1 < g[1] THEN <<col + 1, row>> ELSE <<0, row + 1>>

\* the record kept of one call of find_best_match_tile
CallRecord(target, best, cell, at) ==
    [target |-> target, group |-> best.matched, cursor |-> best.cursor,
     tile |-> best.tile, msg |-> best.msg, raised |-> best.raised,
     cell |-> cell, at |-> at]

\* mosaic_image.paste(best_tile, (paste_x, paste_y))
Paste(img, tile, ts, paste_x, paste_y) ==
    [p \in DOMAIN img |->
        IF /\ p[1] >= paste_x /\ p[1] < paste_x + ts[1]
           /\ p[2] >= paste_y /\ p[2] < paste_y + ts[2]
            THEN <<tile, p[1] - paste_x, p[2] - paste_y>>
            ELSE img[p]]

\* ---------------------------------------------------------------- inputs
Policies == {"nearest", "cycling"}

Factors == {<<n, d>> : n \in (-1)..MaxFactorNum, d \in 1..MaxFactorDen}

MissingBase == [exists |-> FALSE, size |-> NoSize, solid |-> <<>>, split |-> <<>>]

\* Any list of decodable tiles, a base image one tile high, tiles of one pixel.
InitTileSources ==
    /\ source \in {[kind |-> "dir", files |-> f] :
                      f \in SeqsUpTo(TileColours, MaxFiles) \ {<<>>}}
    /\ base_file \in {[exists |-> TRUE, size |-> <<w, 1>>, solid |-> <<>>, split |-> <<>>] : w \in 1..MaxStrip}
    /\ tile_size = <<1, 1>>
    /\ factor = <<1, 1>>

\* Any tile source, files that do not decode included, and a base image of one
\* pixel that may be missing.
InitFailures ==
    /\ source \in {[kind |-> k, files |-> f] :
                      k \in {"dir", "zip"},
                      f \in SeqsUpTo(TileColours \cup {Corrupt}, MaxFiles)}
                  \cup {[kind |-> "invalid", files |-> <<>>]}
    /\ base_file \in {[exists |-> TRUE, size |-> <<1, 1>>, solid |-> <<>>, split |-> <<>>], MissingBase}
    /\ tile_size = <<1, 1>>
    /\ factor = <<1, 1>>

\* Any geometry, a solid base image, a red and a blue tile.
InitGeometry ==
    /\ source = [kind |-> "dir", files |-> <<Red, Blue>>]
    /\ base_file \in {[exists |-> TRUE, size |-> <<w, h>>, solid |-> col, split |-> <<>>] :
                         w \in 1..MaxBase, h \in 1..MaxBase, col \in Targets}
    /\ tile_size \in {<<w, h>> : w \in 1..MaxTileSide, h \in 1..MaxTileSide}
    /\ factor \in Factors

PureRed == <<255, 0, 0>>
PureBlue == <<0, 0, 255>>

\* A base image of 100 x 100, red on the left and blue on the right (or no
\* base image), tiles of 50 x 50, factor 1.0, one pure red and one pure blue
\* tile.
InitEndToEnd ==
    /\ source \in {[kind |-> "dir", files |-> f] :
                      f \in {<<PureRed, PureBlue>>, <<PureBlue, PureRed>>}}
    /\ base_file \in {[exists |-> TRUE, size |-> <<100, 100>>, solid |-> <<>>,
                        split |-> <<PureRed, PureBlue>>],
                       MissingBase}
    /\ tile_size = <<50, 50>>
    /\ factor = <<1, 1>>

\* nothing of get_average_rgb or adjustTilesBasic6Colors.py is running
ToolsIdle ==
    /\ image = <<>>
    /\ avg_color = NoColour
    /\ input_dir = "missing"
    /\ output_dir = NoDir
    /\ archive_dir = [exists |-> FALSE, archives |-> <<>>]
    /\ prep_pc = "idle"
    /\ file_count = 0
    /\ should_archive = FALSE
    /\ answers = <<>>
    /\ prep_result = "none"
    /\ processed_files_count = 0
    /\ final_archive = FALSE

\* the locals of generate_mosaic before its first statement
InitLocals ==
    /\ ToolsIdle
    /\ pc = "open_base"
    /\ base_size = NoSize
    /\ tiles = <<>>
    /\ tile_avg_colors = <<>>
    /\ warnings = <<>>
    /\ color_to_indices_map = <<>>
    /\ unique_colors_list = <<>>
    /\ kdtree = EmptyTree
    /\ grid = NoSize
    /\ base_small_for_avg = <<>>
    /\ mosaic_size = NoSize
    /\ mosaic_image = <<>>
    /\ r = 0
    /\ c = 0
    /\ processed_cells = 0
    /\ calls = <<>>
    /\ saved = NoSize
    /\ err = None
    /\ outcome = "running"

Init ==
    /\ policy \in Policies
    /\ InitTileSources \/ InitFailures \/ InitGeometry
    /\ InitLocals

InitRedBlue ==
    /\ policy \in Policies
    /\ InitEndToEnd
    /\ InitLocals

\* ---------------------------------------------------------------- generate_mosaic
Raise(e) == /\ err' = e
            /\ pc' = "except"

\* 1. Image.open(base_image_path)
OpenBase ==
    /\ pc = "open_base"
    /\ IF base_file.exists
          THEN /\ base_size' = base_file.size
               /\ pc' = "load_tiles"
               /\ err' = err
          ELSE /\ Raise("FileNotFoundError")
               /\ base_size' = base_size
    /\ UNCHANGED <<tool_vars, policy, base_file, source, tile_size, factor, tiles, tile_avg_colors,
                   warnings, color_to_indices_map, unique_colors_list, kdtree, grid,
                   base_small_for_avg, mosaic_size, mosaic_image, r, c, processed_cells,
                   calls, saved, outcome>>

\* 2. load_tile_images(tile_images_source, tile_size)
LoadTiles ==
    /\ pc = "load_tiles"
    /\ LET got == load_tile_images(source)
       IN  /\ warnings' = got.warnings
           /\ IF got.raised
                 THEN /\ Raise("ValueError")
                      /\ UNCHANGED <<tiles, tile_avg_colors>>
                 ELSE /\ tiles' = got.tiles
                      /\ tile_avg_colors' = got.avg_colors
                      /\ pc' = IF policy = "cycling" THEN "group" ELSE "build_index"
                      /\ err' = err
    /\ UNCHANGED <<tool_vars, policy, base_file, source, tile_size, factor, base_size,
                   color_to_indices_map, unique_colors_list, kdtree, grid,
                   base_small_for_avg, mosaic_size, mosaic_image, r, c, processed_cells,
                   calls, saved, outcome>>

\* 3. (cycling) group the tiles by average colour
GroupTiles ==
    /\ pc = "group"
    /\ IF tiles = <<>>
          THEN /\ Raise("ValueError")
               /\ UNCHANGED <<color_to_indices_map, unique_colors_list>>
          ELSE LET g == GroupTilesByColor(tile_avg_colors)
               IN  /\ color_to_indices_map' = g.map
                   /\ unique_colors_list' = g.keys
                   /\ IF DOMAIN g.map = {}
                         THEN Raise("ValueError")
                         ELSE /\ pc' = "build_index"
                              /\ err' = err
    /\ UNCHANGED <<tool_vars, policy, base_file, source, tile_size, factor, base_size, tiles,
                   tile_avg_colors, warnings, kdtree, grid, base_small_for_avg,
                   mosaic_size, mosaic_image, r, c, processed_cells, calls, saved, outcome>>

\* both scripts index one point per tile
IndexedPoints_PerTile == tile_avg_colors

\* the points handed to KDTree(...)
IndexedPoints == IF policy = "cycling" THEN unique_colors_list ELSE tile_avg_colors

\* 3./4. KDTree(...)
BuildIndex ==
    /\ pc = "build_index"
    /\ IF Len(IndexedPoints) = 0
          THEN /\ Raise("ValueError")
               /\ kdtree' = kdtree
          ELSE /\ \E order \in Perms(Len(IndexedPoints)) :
                      kdtree' = KDTree(IndexedPoints, order)
               /\ pc' = "plan"
               /\ err' = err
    /\ UNCHANGED <<tool_vars, policy, base_file, source, tile_size, factor, base_size, tiles,
                   tile_avg_colors, warnings, color_to_indices_map, unique_colors_list,
                   grid, base_small_for_avg, mosaic_size, mosaic_image, r, c,
                   processed_cells, calls, saved, outcome>>

\* the colour of a cell of colour near beside a half of colour far, once the
\* filter has let the other half ring into it: 232 : 23 for 100 pixels -> 2
Ringing(near, far) == [k \in 1..3 |-> (232 * near[k] + 23 * far[k]) \div 255]

\* a base image with a left and a right half, resized: the cells are the
\* averages of their halves, or those averages with the filter's ringing
SplitResized(left, right, g) ==
    {[cell \in Cells(g) |-> IF 2 * cell[1] < g[1] THEN left ELSE right],
     [cell \in Cells(g) |-> IF 2 * cell[1] < g[1] THEN Ringing(left, right)
                                                  ELSE Ringing(right, left)]}

\* base_image.resize((grid_w, grid_h), LANCZOS): what the cells may come out as
Resized(file, g) ==
    IF file.split # <<>> THEN SplitResized(file.split[1], file.split[2], g)
    ELSE IF file.solid = <<>> THEN [Cells(g) -> Targets]
    ELSE {[cell \in Cells(g) |-> file.solid]}

\* 4./5. grid dimensions and the downscaled base image
PlanGrid ==
    /\ pc = "plan"
    /\ grid' = <<GridDim(base_size[1], tile_size[1], factor),
                 GridDim(base_size[2], tile_size[2], factor)>>
    /\ base_small_for_avg' \in Resized(base_file, grid')
    /\ pc' = "canvas"
    /\ UNCHANGED <<tool_vars, policy, base_file, source, tile_size, factor, base_size, tiles,
                   tile_avg_colors, warnings, color_to_indices_map, unique_colors_list,
                   kdtree, mosaic_size, mosaic_image, r, c, processed_cells, calls,
                   saved, err, outcome>>

\* 5./6. Image.new('RGB', (mosaic_width, mosaic_height))
CreateCanvas ==
    /\ pc = "canvas"
    /\ mosaic_size' = mosaic_dims(grid, tile_size)
    /\ mosaic_image' = [p \in Pixels(mosaic_size') |-> Blank]
    /\ processed_cells' = 0
    /\ r' = 0
    /\ c' = 0
    /\ pc' = "assemble"
    /\ UNCHANGED <<tool_vars, policy, base_file, source, tile_size, factor, base_size, tiles,
                   tile_avg_colors, warnings, color_to_indices_map, unique_colors_list,
                   kdtree, grid, base_small_for_avg, calls, saved, err, outcome>>

\* the call of find_best_match_tile made for one cell
BestTile(cell_avg_color) ==
    IF policy = "cycling"
        THEN find_best_match_tile_cycling(cell_avg_color, kdtree, unique_colors_list,
                                          tiles, color_to_indices_map)
        ELSE find_best_match_tile_nearest(cell_avg_color, kdtree, tiles)

\* 6./7. one pass of the body of the cell loop
AssembleCell ==
    /\ pc = "assemble"
    /\ r < grid[2] /\ c < grid[1]
    /\ LET cell_avg_color == base_small_for_avg[<<c, r>>]
           best == BestTile(cell_avg_color)
           at == PasteAt(c, r, tile_size)
       IN  IF best.raised
              THEN /\ Raise("ValueError")
                   /\ UNCHANGED <<color_to_indices_map, mosaic_image, r, c,
                                  processed_cells, calls>>
              ELSE /\ color_to_indices_map' = best.map
                   /\ mosaic_image' = Paste(mosaic_image, best.tile, tile_size, at[1], at[2])
                   /\ processed_cells' = processed_cells + 1
                   /\ calls' = Append(calls, CallRecord(cell_avg_color, best, <<c, r>>, at))
                   /\ c' = NextCell(c, r, grid)[1]
                   /\ r' = NextCell(c, r, grid)[2]
                   /\ pc' = pc
                   /\ err' = err
    /\ UNCHANGED <<tool_vars, policy, base_file, source, tile_size, factor, base_size, tiles,
                   tile_avg_colors, warnings, unique_colors_list, kdtree, grid,
                   base_small_for_avg, mosaic_size, saved, outcome>>

\* the canvas is saved from inside the loop
Save_Early ==
    /\ pc = "assemble"
    /\ saved' = mosaic_size
    /\ outcome' = "returned"
    /\ pc' = "done"
    /\ UNCHANGED <<tool_vars, policy, base_file, source, tile_size, factor, base_size, tiles,
                   tile_avg_colors, warnings, color_to_indices_map, unique_colors_list,
                   kdtree, grid, base_small_for_avg, mosaic_size, mosaic_image, r, c,
                   processed_cells, calls, err>>

\* 7./8. the loop is over: mosaic_image.save(output_path)
Save ==
    /\ pc = "assemble"
    /\ ~(r < grid[2] /\ c < grid[1])
    /\ saved' = mosaic_size
    /\ outcome' = "returned"
    /\ pc' = "done"
    /\ UNCHANGED <<tool_vars, policy, base_file, source, tile_size, factor, base_size, tiles,
                   tile_avg_colors, warnings, color_to_indices_map, unique_colors_list,
                   kdtree, grid, base_small_for_avg, mosaic_size, mosaic_image, r, c,
                   processed_cells, calls, err>>

\* the except clauses: ByTile prints and returns, CyclePhotos calls sys.exit(1)
HandleError ==
    /\ pc = "except"
    /\ outcome' = IF policy = "cycling" THEN "exit1" ELSE "returned"
    /\ pc' = "done"
    /\ UNCHANGED <<tool_vars, policy, base_file, source, tile_size, factor, base_size, tiles,
                   tile_avg_colors, warnings, color_to_indices_map, unique_colors_list,
                   kdtree, grid, base_small_for_avg, mosaic_size, mosaic_image, r, c,
                   processed_cells, calls, saved, err>>

Next ==
    \/ OpenBase
    \/ LoadTiles
    \/ GroupTiles
    \/ BuildIndex
    \/ PlanGrid
    \/ CreateCanvas
    \/ AssembleCell
    \/ Save
    \/ HandleError

Spec == Init /\ [][Next]_vars

\* A solid base image of any size (or none), tiles of one pixel, a red and a
\* blue tile, a factor below, at and above 1.
InitGrids ==
    /\ policy \in Policies
    /\ source = [kind |-> "dir", files |-> <<Red, Blue>>]
    /\ base_file \in {[exists |-> TRUE, size |-> <<w, h>>, solid |-> col, split |-> <<>>] :
                         w \in 1..MaxBase, h \in 1..MaxBase, col \in Targets}
                     \cup {MissingBase}
    /\ tile_size = <<1, 1>>
    /\ factor \in {<<-1, 1>>, <<1, 2>>, <<1, 1>>, <<2, 1>>}
    /\ InitLocals

\* generate_mosaic runs in one thread that takes its next step as long as it
\* has one
SpecFair == InitGrids /\ [][Next]_vars /\ WF_vars(Next)

\* the render of the red and blue base image
SpecEndToEnd == InitRedBlue /\ [][Next]_vars

\* ---------------------------------------------------------------- calls of the selector
\* a pixel of four components, which a tree of three-component points rejects
Malformed == <<0, 0, 0, 0>>

\* The arguments of find_best_match_tile as generate_mosaic builds them from a
\* list of decoded tiles (steps 2 to 4), the empty list included, the loop
\* about to make its first call.
InitSelector ==
    /\ ToolsIdle
    /\ policy \in Policies
    /\ source \in {[kind |-> "dir", files |-> f] : f \in SeqsUpTo({Red, Blue}, MaxFiles)}
    /\ LET loaded == LoadLoop(source.files, 0,
                              [tiles |-> <<>>, avg_colors |-> <<>>, warnings |-> <<>>])
           g == GroupTilesByColor(loaded.avg_colors)
           points == IF policy = "cycling" THEN g.keys ELSE loaded.avg_colors
       IN  /\ tiles = loaded.tiles
           /\ tile_avg_colors = loaded.avg_colors
           /\ warnings = loaded.warnings
           /\ color_to_indices_map = IF policy = "cycling" THEN g.map ELSE <<>>
           /\ unique_colors_list = IF policy = "cycling" THEN g.keys ELSE <<>>
           /\ kdtree \in {KDTree(points, order) : order \in Perms(Len(points))}
    /\ base_file = [exists |-> TRUE, size |-> <<1, 1>>, solid |-> <<>>, split |-> <<>>]
    /\ base_size = <<1, 1>>
    /\ tile_size = <<1, 1>>
    /\ factor = <<1, 1>>
    /\ pc = "assemble"
    /\ grid = NoSize
    /\ base_small_for_avg = <<>>
    /\ mosaic_size = NoSize
    /\ mosaic_image = <<>>
    /\ r = 0
    /\ c = 0
    /\ processed_cells = 0
    /\ calls = <<>>
    /\ saved = NoSize
    /\ err = None
    /\ outcome = "running"

\* one call of find_best_match_tile, for a pixel of three components or a
\* malformed one; a raise ends the loop that makes the calls
CallSelector ==
    /\ pc = "assemble"
    /\ Len(calls) < MaxCalls
    /\ \E target \in Targets \cup {Malformed} :
           LET best == BestTile(target)
           IN  /\ calls' = Append(calls, CallRecord(target, best, <<c, r>>,
                                                    PasteAt(c, r, tile_size)))
               /\ IF best.raised
                     THEN /\ Raise("ValueError")
                          /\ color_to_indices_map' = color_to_indices_map
                     ELSE /\ color_to_indices_map' = best.map
                          /\ pc' = pc
                          /\ err' = err
    /\ UNCHANGED <<tool_vars, policy, base_file, source, tile_size, factor, base_size, tiles,
                   tile_avg_colors, warnings, unique_colors_list, kdtree, grid,
                   base_small_for_avg, mosaic_size, mosaic_image, r, c,
                   processed_cells, saved, outcome>>

NextSelector ==
    \/ CallSelector
    \/ HandleError

SpecSelector == InitSelector /\ [][NextSelector]_vars

\* ---------------------------------------------------------------- cells in any order
\* The state of generate_mosaic when the cell loop is entered (steps 1 to 6
\* done), for a base image one tile high.
InitAnyOrder ==
    /\ ToolsIdle
    /\ policy \in Policies
    /\ source \in {[kind |-> "dir", files |-> f] :
                      f \in {<<Red, Blue>>, <<Red, Red>>, <<Blue, Red, Blue>>}}
    /\ LET loaded == LoadLoop(source.files, 0,
                              [tiles |-> <<>>, avg_colors |-> <<>>, warnings |-> <<>>])
           g == GroupTilesByColor(loaded.avg_colors)
           points == IF policy = "cycling" THEN g.keys ELSE loaded.avg_colors
       IN  /\ tiles = loaded.tiles
           /\ tile_avg_colors = loaded.avg_colors
           /\ warnings = loaded.warnings
           /\ color_to_indices_map = IF policy = "cycling" THEN g.map ELSE <<>>
           /\ unique_colors_list = IF policy = "cycling" THEN g.keys ELSE <<>>
           /\ kdtree \in {KDTree(points, order) : order \in Perms(Len(points))}
    /\ base_file \in {[exists |-> TRUE, size |-> <<w, 1>>, solid |-> <<>>, split |-> <<>>] :
                         w \in 1..MaxStrip}
    /\ base_size = base_file.size
    /\ tile_size = <<1, 1>>
    /\ factor = <<1, 1>>
    /\ grid = <<GridDim(base_size[1], tile_size[1], factor),
                GridDim(base_size[2], tile_size[2], factor)>>
    /\ base_small_for_avg \in Resized(base_file, grid)
    /\ mosaic_size = mosaic_dims(grid, tile_size)
    /\ mosaic_image = [p \in Pixels(mosaic_size) |-> Blank]
    /\ pc = "assemble"
    /\ r = 0
    /\ c = 0
    /\ processed_cells = 0
    /\ calls = <<>>
    /\ saved = NoSize
    /\ err = None
    /\ outcome = "running"

\* the cells for which find_best_match_tile has been called
LookedUp == {calls[n].cell : n \in DOMAIN calls}

\* the first half of the loop body, for any cell not yet looked up: the pixel
\* is read and find_best_match_tile is called
LookupAnyCell ==
    /\ pc = "assemble"
    /\ \E cell \in Cells(grid) \ LookedUp :
           LET cell_avg_color == base_small_for_avg[cell]
               best == BestTile(cell_avg_color)
           IN  /\ ~best.raised
               /\ color_to_indices_map' = best.map
               /\ calls' = Append(calls, CallRecord(cell_avg_color, best, cell,
                                                    PasteAt(cell[1], cell[2], tile_size)))
    /\ UNCHANGED <<tool_vars, policy, pc, base_file, source, tile_size, factor, base_size, tiles,
                   tile_avg_colors, warnings, unique_colors_list, kdtree, grid,
                   base_small_for_avg, mosaic_size, mosaic_image, r, c,
                   processed_cells, saved, err, outcome>>

\* the second half of the loop body, for any cell looked up and not yet
\* painted: the tile is pasted
PaintAnyCell ==
    /\ pc = "assemble"
    /\ \E n \in DOMAIN calls :
           /\ mosaic_image[calls[n].at] = Blank
           /\ mosaic_image' = Paste(mosaic_image, calls[n].tile, tile_size,
                                    calls[n].at[1], calls[n].at[2])
    /\ processed_cells' = processed_cells + 1
    /\ UNCHANGED <<tool_vars, policy, pc, base_file, source, tile_size, factor, base_size, tiles,
                   tile_avg_colors, warnings, color_to_indices_map, unique_colors_list,
                   kdtree, grid, base_small_for_avg, mosaic_size, r, c, calls, saved,
                   err, outcome>>

NextAnyOrder ==
    \/ LookupAnyCell
    \/ PaintAnyCell

SpecAnyOrder == InitAnyOrder /\ [][NextAnyOrder]_vars

\* ---------------------------------------------------------------- get_average_rgb
\* no render is running
RenderIdle ==
    /\ policy = "nearest"
    /\ pc = "idle"
    /\ base_file = MissingBase
    /\ source = [kind |-> "invalid", files |-> <<>>]
    /\ tile_size = NoSize
    /\ factor = <<1, 1>>
    /\ base_size = NoSize
    /\ tiles = <<>>
    /\ tile_avg_colors = <<>>
    /\ warnings = <<>>
    /\ color_to_indices_map = <<>>
    /\ unique_colors_list = <<>>
    /\ kdtree = EmptyTree
    /\ grid = NoSize
    /\ base_small_for_avg = <<>>
    /\ mosaic_size = NoSize
    /\ mosaic_image = <<>>
    /\ r = 0
    /\ c = 0
    /\ processed_cells = 0
    /\ calls = <<>>
    /\ saved = NoSize
    /\ err = None
    /\ outcome = "running"

\* pixel values of the images drawn
Palette == {Black, DarkRed, PureRed, PureBlue}

\* np.array(image.convert('RGB'), dtype=float) summed over both axes, channel k
RECURSIVE ChannelSum(_, _, _)
ChannelSum(img, k, n) ==
    IF n >= Len(img) THEN 0 ELSE At(img, n)[k] + ChannelSum(img, k, n + 1)

\* the mean is rounded to the nearest integer
get_average_rgb_Rounded(img) ==
    [k \in 1..3 |-> (2 * ChannelSum(img, k, 0) + Len(img)) \div (2 * Len(img))]

\* get_average_rgb: tuple(np.mean(img_array, axis=(0, 1)).astype(int))
get_average_rgb(img) ==
    [k \in 1..3 |-> PyInt(ChannelSum(img, k, 0), Len(img))]

\* an image of one to MaxPixels pixels, not yet averaged
InitAverage ==
    /\ RenderIdle
    /\ image \in SeqsUpTo(Palette, MaxPixels) \ {<<>>}
    /\ avg_color = NoColour
    /\ input_dir = "missing"
    /\ output_dir = NoDir
    /\ archive_dir = [exists |-> FALSE, archives |-> <<>>]
    /\ prep_pc = "idle"
    /\ file_count = 0
    /\ should_archive = FALSE
    /\ answers = <<>>
    /\ prep_result = "none"
    /\ processed_files_count = 0
    /\ final_archive = FALSE

\* the call get_average_rgb(image)
GetAverage ==
    /\ avg_color = NoColour
    /\ image # <<>>
    /\ avg_color' = get_average_rgb(image)
    /\ UNCHANGED <<render_vars, image, input_dir, output_dir, archive_dir, prep_pc,
                   file_count, should_archive, answers, prep_result,
                   processed_files_count, final_archive>>

NextAverage == GetAverage

SpecAverage == InitAverage /\ [][NextAverage]_vars

\* ---------------------------------------------------------------- adjustTilesBasic6Colors.py
\* if file_count > 200: the size warning and the third prompt
ArchiveWarnLimit == 200

\* numbers of regular files directly in OUTPUT_DIR
FileCounts == {0, 1, ArchiveWarnLimit + 1}

\* what the user may type at a prompt
RawAnswers == {"Y", " y ", "N", "n", "yes", ""}

\* input(...).strip().upper()
StripUpper(raw) ==
    CASE raw \in {"Y", " y "} -> "Y"
      [] raw \in {"N", "n"} -> "N"
      [] raw = "yes" -> "YES"
      [] OTHER -> ""

\* one line typed by the user at a prompt
Answer(prompt, raw) == [prompt |-> prompt, raw |-> raw]

\* what can follow an answer that is neither Y nor N is bounded
MayType(raw) == StripUpper(raw) \in {"Y", "N"} \/ Len(answers) < MaxAnswers

EmptyDir == [kind |-> "dir", files |-> 0, subdirs |-> 0, readable |-> TRUE]

\* The script is started: any state of INPUT_DIR, OUTPUT_DIR (absent, a
\* regular file, or a directory with files and subdirectories) and
\* ARCHIVE_OUTPUT_DIR.
InitAdjust ==
    /\ RenderIdle
    /\ image = <<>>
    /\ avg_color = NoColour
    /\ input_dir \in {"missing", "unreadable", "no_images", "images"}
    /\ output_dir \in {NoDir, [kind |-> "file", files |-> 0, subdirs |-> 0, readable |-> TRUE]}
                      \cup {[kind |-> "dir", files |-> f, subdirs |-> d, readable |-> rd] :
                               f \in FileCounts, d \in 0..1, rd \in BOOLEAN}
    /\ archive_dir \in {[exists |-> x, archives |-> <<>>] : x \in BOOLEAN}
    /\ prep_pc = "check_input"
    /\ file_count = 0
    /\ should_archive = FALSE
    /\ answers = <<>>
    /\ prep_result = "none"
    /\ processed_files_count = 0
    /\ final_archive = FALSE

\* return <value> of prepare_directories
Return(value) ==
    /\ prep_result' = value
    /\ prep_pc' = "returned"

\* 1. Check Input Directory
CheckInput ==
    /\ prep_pc = "check_input"
    /\ IF input_dir = "images"
          THEN /\ prep_pc' = "check_output"
               /\ prep_result' = prep_result
          ELSE Return("False")
    /\ UNCHANGED <<render_vars, image, avg_color, input_dir, output_dir, archive_dir,
                   file_count, should_archive, answers, processed_files_count,
                   final_archive>>

\* 2. Check and Prepare Output Directory: the listing of the regular files
CheckOutput ==
    /\ prep_pc = "check_output"
    /\ IF output_dir.kind = "dir" /\ ~output_dir.readable
          THEN /\ Return("False")
               /\ file_count' = file_count
          ELSE /\ file_count' = IF output_dir.kind = "dir" THEN output_dir.files ELSE 0
               /\ prep_pc' = IF output_dir.kind = "dir" /\ output_dir.files > 0
                                 THEN "ask_remove" ELSE "ensure"
               /\ prep_result' = prep_result
    /\ UNCHANGED <<render_vars, image, avg_color, input_dir, output_dir, archive_dir,
                   should_archive, answers, processed_files_count, final_archive>>

\* every answer but N is taken for Y
AskRemove_AnythingButNo ==
    /\ prep_pc = "ask_remove"
    /\ \E raw \in RawAnswers :
           /\ MayType(raw)
           /\ answers' = Append(answers, Answer("remove", raw))
           /\ IF StripUpper(raw) = "N"
                 THEN Return("False")
                 ELSE /\ prep_pc' = "ask_archive"
                      /\ prep_result' = prep_result
    /\ UNCHANGED <<render_vars, image, avg_color, input_dir, output_dir, archive_dir,
                   file_count, should_archive, processed_files_count, final_archive>>

\* Remove existing files and continue? (Y/N)
AskRemove ==
    /\ prep_pc = "ask_remove"
    /\ \E raw \in RawAnswers :
           /\ MayType(raw)
           /\ answers' = Append(answers, Answer("remove", raw))
           /\ CASE StripUpper(raw) = "Y" -> /\ prep_pc' = "ask_archive"
                                            /\ prep_result' = prep_result
                [] StripUpper(raw) = "N" -> Return("False")
                [] OTHER -> UNCHANGED <<prep_pc, prep_result>>
    /\ UNCHANGED <<render_vars, image, avg_color, input_dir, output_dir, archive_dir,
                   file_count, should_archive, processed_files_count, final_archive>>

\* Archive ... existing files ... before removing? (Y/N)
AskArchive ==
    /\ prep_pc = "ask_archive"
    /\ \E raw \in RawAnswers :
           /\ MayType(raw)
           /\ answers' = Append(answers, Answer("archive", raw))
           /\ CASE StripUpper(raw) = "Y" ->
                       /\ should_archive' = TRUE
                       /\ prep_pc' = IF file_count > ArchiveWarnLimit
                                         THEN "ask_proceed" ELSE "archive"
                [] StripUpper(raw) = "N" ->
                       /\ should_archive' = FALSE
                       /\ prep_pc' = "remove"
                [] OTHER -> UNCHANGED <<prep_pc, should_archive>>
    /\ UNCHANGED <<render_vars, image, avg_color, input_dir, output_dir, archive_dir,
                   file_count, prep_result, processed_files_count, final_archive>>

\* Proceed with archiving? (Y/N), asked for more than 200 files
AskProceed ==
    /\ prep_pc = "ask_proceed"
    /\ \E raw \in RawAnswers :
           /\ MayType(raw)
           /\ answers' = Append(answers, Answer("proceed", raw))
           /\ CASE StripUpper(raw) = "Y" ->
                       /\ prep_pc' = "archive"
                       /\ should_archive' = should_archive
                [] StripUpper(raw) = "N" ->
                       /\ should_archive' = FALSE
                       /\ prep_pc' = "remove"
                [] OTHER -> UNCHANGED <<prep_pc, should_archive>>
    /\ UNCHANGED <<render_vars, image, avg_color, input_dir, output_dir, archive_dir,
                   file_count, prep_result, processed_files_count, final_archive>>

\* a failed archive is logged and the removal goes on
ArchiveExisting_IgnoresFailure ==
    /\ prep_pc = "archive"
    /\ \E made, zipped \in BOOLEAN :
           /\ archive_dir' =
                  [exists |-> archive_dir.exists \/ made,
                   archives |-> IF (archive_dir.exists \/ made) /\ zipped
                                    THEN Append(archive_dir.archives,
                                                [files |-> output_dir.files,
                                                 subdirs |-> output_dir.subdirs])
                                    ELSE archive_dir.archives]
           /\ prep_pc' = "remove"
           /\ prep_result' = prep_result
    /\ UNCHANGED <<render_vars, image, avg_color, input_dir, output_dir, file_count,
                   should_archive, answers, processed_files_count, final_archive>>

\* if should_archive: archive_existing_output(OUTPUT_DIR, ARCHIVE_OUTPUT_DIR).
\* os.makedirs of the archive directory and the writing of the zip file may
\* each fail; a failure makes prepare_directories return False.
ArchiveExisting ==
    /\ prep_pc = "archive"
    /\ \E made, zipped \in BOOLEAN :
           LET there == archive_dir.exists \/ made
           IN  /\ archive_dir' =
                      [exists |-> there,
                       archives |-> IF there /\ zipped
                                        THEN Append(archive_dir.archives,
                                                    [files |-> output_dir.files,
                                                     subdirs |-> output_dir.subdirs])
                                        ELSE archive_dir.archives]
               /\ IF there /\ zipped
                     THEN /\ prep_pc' = "remove"
                          /\ prep_result' = prep_result
                     ELSE Return("False")
    /\ UNCHANGED <<render_vars, image, avg_color, input_dir, output_dir, file_count,
                   should_archive, answers, processed_files_count, final_archive>>

\* shutil.rmtree(OUTPUT_DIR): it removes the directory with all it holds, or
\* fails having removed any part of it
RemoveOutput ==
    /\ prep_pc = "remove"
    /\ \/ /\ output_dir' = NoDir
          /\ prep_pc' = "ensure"
          /\ prep_result' = prep_result
       \/ /\ output_dir' \in {[output_dir EXCEPT !.files = f, !.subdirs = d] :
                                f \in {0, output_dir.files}, d \in {0, output_dir.subdirs}}
          /\ Return("False")
    /\ UNCHANGED <<render_vars, image, avg_color, input_dir, archive_dir, file_count,
                   should_archive, answers, processed_files_count, final_archive>>

\* if not os.path.exists(OUTPUT_DIR): os.makedirs(OUTPUT_DIR), which may
\* fail; return True
EnsureOutput ==
    /\ prep_pc = "ensure"
    /\ IF output_dir.kind = "absent"
          THEN \/ /\ output_dir' = EmptyDir
                  /\ Return("True")
               \/ /\ output_dir' = output_dir
                  /\ Return("False")
          ELSE /\ output_dir' = output_dir
               /\ Return("True")
    /\ UNCHANGED <<render_vars, image, avg_color, input_dir, archive_dir, file_count,
                   should_archive, answers, processed_files_count, final_archive>>

\* main: if not prepare_directories(): return
MainStops ==
    /\ prep_pc = "returned"
    /\ prep_result = "False"
    /\ prep_pc' = "exited"
    /\ UNCHANGED <<render_vars, image, avg_color, input_dir, output_dir, archive_dir,
                   file_count, should_archive, answers, prep_result,
                   processed_files_count, final_archive>>

\* main, steps 3 and 4: the images are copied and coloured into OUTPUT_DIR
\* (a copy may fail) and, if one was processed, create_archive is called; with
\* none processed an empty OUTPUT_DIR is removed, and os.listdir raises when
\* OUTPUT_DIR is not a directory
ProcessImages ==
    /\ prep_pc = "returned"
    /\ prep_result = "True"
    /\ \E n \in 0..1 :
           /\ n = 1 => output_dir.kind = "dir"
           /\ processed_files_count' = n
           /\ IF n > 0
                 THEN /\ output_dir' = [output_dir EXCEPT !.files = @ + n]
                      /\ final_archive' = TRUE
                      /\ prep_pc' = "finished"
                 ELSE /\ final_archive' = final_archive
                      /\ IF output_dir.kind = "file"
                            THEN /\ prep_pc' = "crashed"
                                 /\ output_dir' = output_dir
                            ELSE /\ prep_pc' = "exited"
                                 /\ output_dir' \in
                                        IF output_dir.files = 0 /\ output_dir.subdirs = 0
                                            THEN {NoDir, output_dir}
                                            ELSE {output_dir}
    /\ UNCHANGED <<render_vars, image, avg_color, input_dir, archive_dir, file_count,
                   should_archive, answers, prep_result>>

NextAdjust ==
    \/ CheckInput
    \/ CheckOutput
    \/ AskRemove
    \/ AskArchive
    \/ AskProceed
    \/ ArchiveExisting
    \/ RemoveOutput
    \/ EnsureOutput
    \/ MainStops
    \/ ProcessImages

SpecAdjust == InitAdjust /\ [][NextAdjust]_vars

\* ---------------------------------------------------------------- properties
Last(s) == s[Len(s)]

Groups == DOMAIN color_to_indices_map

\* the tiles of colour group g, in load order
GroupMembers(g) ==
    [j \in 1..Len(color_to_indices_map[g].indices) |->
        At(tiles, color_to_indices_map[g].indices[j])]

\* the calls that matched colour group g, in call order
GroupCalls(g) == SelectSeq(calls, LAMBDA x : x.group = g)

\* C1: under CyclingMatch, any k consecutive calls that match a group of k
\* tiles (calls matching other groups may come in between) return k different
\* tiles, so each tile of the group exactly once, and they come in the group's
\* load order starting from the cursor: the n-th call matching the group
\* returns member (n - 1) mod k.
C1_RoundRobin ==
    policy = "cycling" =>
        \A g \in Groups :
            LET h == GroupCalls(g)
                m == GroupMembers(g)
                k == Len(m)
            IN  \A i \in 1..Len(h) :
                    /\ h[i].tile = m[((i - 1) % k) + 1]
                    /\ i + k - 1 <= Len(h) =>
                          /\ {h[j].tile : j \in i..(i + k - 1)} = Range(m)
                          /\ \A j1, j2 \in i..(i + k - 1) :
                                 h[j1].tile = h[j2].tile => j1 = j2

\* a group of two or more tiles was cycled through once while a call matching
\* another group came in between
C1_Witness ==
    /\ policy = "cycling"
    /\ \E g \in Groups :
          /\ Len(color_to_indices_map[g].indices) >= 2
          /\ Len(GroupCalls(g)) >= Len(color_to_indices_map[g].indices)
          /\ \E i, j, l \in DOMAIN calls :
                /\ i < j /\ j < l
                /\ calls[i].group = g /\ calls[l].group = g
                /\ calls[j].group # g

\* C2: in every state of a cycling render each group's next_idx lies in
\* 0 .. len(indices) - 1, and it is 0 for every group as long as no query was
\* made.
C2_CursorInRange ==
    policy = "cycling" =>
        \A g \in Groups :
            /\ 0 <= color_to_indices_map[g].next_idx
            /\ color_to_indices_map[g].next_idx < Len(color_to_indices_map[g].indices)
            /\ calls = <<>> => color_to_indices_map[g].next_idx = 0

\* a cursor has wrapped around to 0 while another one stands inside its group
C2_Witness ==
    /\ policy = "cycling"
    /\ \E g \in Groups :
          /\ Len(color_to_indices_map[g].indices) >= 2
          /\ color_to_indices_map[g].next_idx = Len(color_to_indices_map[g].indices) - 1
    /\ \E g \in Groups :
          /\ Len(GroupCalls(g)) >= 1
          /\ color_to_indices_map[g].next_idx = 0

MinDist(target) == {p \in Range(kdtree.data) :
                       \A q \in Range(kdtree.data) : SqDist(p, target) <= SqDist(q, target)}

\* C3: a call whose nearest distinct colour is g moves g's cursor to
\* (next_idx + 1) mod len(indices) and returns tiles[indices[old next_idx]].
C3_CursorAdvances ==
    [][(policy = "cycling" /\ calls' # calls /\ Last(calls').group # NoGroup) =>
          LET call == Last(calls')
              g == call.group
              old == color_to_indices_map[g]
          IN  /\ g \in MinDist(call.target)
              /\ color_to_indices_map'[g].next_idx = (old.next_idx + 1) % Len(old.indices)
              /\ call.tile = At(tiles, At(old.indices, old.next_idx))]_vars

\* the last call wrapped the cursor of a group of three tiles
C3_Witness ==
    /\ policy = "cycling"
    /\ calls # <<>>
    /\ Len(color_to_indices_map[Last(calls).group].indices) = 3
    /\ Last(calls).cursor = 2
    /\ color_to_indices_map[Last(calls).group].next_idx = 0

\* load positions (0-based) of the tiles whose average colour is col
TilesOfColour(col) == {i \in 0..(Len(tiles) - 1) : At(tile_avg_colors, i) = col}

FirstOf(S) == CHOOSE i \in S : \A j \in S : i <= j

\* position of point i in the order the tree visits its points
Visit(i) == CHOOSE k \in DOMAIN kdtree.order : kdtree.order[k] = i

C5_Idempotent ==
    policy = "nearest" =>
        \A m, n \in DOMAIN calls :
            calls[m].target = calls[n].target => calls[m].tile = calls[n].tile

\* the same colour was asked for twice, with a call for another colour, which
\* returned another tile, in between
C5_Witness ==
    /\ policy = "nearest"
    /\ \E l, m, n \in DOMAIN calls :
          /\ l < m /\ m < n
          /\ calls[l].target = calls[n].target
          /\ calls[m].target # calls[l].target
          /\ calls[m].tile # calls[l].tile
          /\ Len(tiles) >= 3

\* C6: under both policies the colour a call matches is an indexed colour
\* whose squared Euclidean distance to the target is less than or equal to
\* that of every indexed colour.
C6_NearestColour ==
    \A n \in DOMAIN calls :
        /\ calls[n].group \in Range(kdtree.data)
        /\ \A q \in Range(kdtree.data) :
               SqDist(calls[n].group, calls[n].target) <= SqDist(q, calls[n].target)

\* a call matched a colour strictly nearer than another indexed colour, among
\* three indexed colours, and a call had two nearest colours to choose from
C6_Witness ==
    /\ Cardinality(Range(kdtree.data)) = 3
    /\ \E n \in DOMAIN calls :
          \E q \in Range(kdtree.data) :
              SqDist(calls[n].group, calls[n].target) < SqDist(q, calls[n].target)
    /\ \E n \in DOMAIN calls : Cardinality(MinDist(calls[n].target)) = 2

IndexBuilt == kdtree # EmptyTree

Distinct(s) == \A i, j \in DOMAIN s : s[i] = s[j] => i = j

GridPlanned == grid # NoSize

\* floor(base / tile * factor), for tile > 0 and a factor <<num, den>>, den > 0
FloorDim(base, tile, f) == (base * f[1]) \div (tile * f[2])

\* C8: grid_w = max(1, floor(base_width / tile_w * factor)) and grid_h
\* likewise, both at least 1; base (500, 300) with tile (50, 50) gives
\* (10, 6) at factor 1.0 and (20, 12) at factor 2.0, and a base of 50 x 50
\* gives (1, 1) at factor 0.1.
C8_GridDimensions ==
    /\ GridPlanned =>
          /\ grid[1] = Max(1, FloorDim(base_size[1], tile_size[1], factor))
          /\ grid[2] = Max(1, FloorDim(base_size[2], tile_size[2], factor))
          /\ grid[1] >= 1 /\ grid[2] >= 1
    /\ GridDim(500, 50, <<1, 1>>) = 10 /\ GridDim(300, 50, <<1, 1>>) = 6
    /\ GridDim(500, 50, <<2, 1>>) = 20 /\ GridDim(300, 50, <<2, 1>>) = 12
    /\ GridDim(50, 50, <<1, 10>>) = 1

\* a grid was planned with a negative factor, where int() and floor differ,
\* for a base that is wider than high
C8_Witness ==
    /\ GridPlanned
    /\ factor[1] < 0
    /\ PyInt(base_size[1] * factor[1], tile_size[1] * factor[2])
           # FloorDim(base_size[1], tile_size[1], factor)
    /\ base_size[1] > base_size[2]

\* a grid dimension is not positive before max(1, ...) is applied
NonPositiveBeforeClamp ==
    /\ base_size # NoSize
    /\ \/ PyInt(base_size[1] * factor[1], tile_size[1] * factor[2]) <= 0
       \/ PyInt(base_size[2] * factor[1], tile_size[2] * factor[2]) <= 0

\* C9 (as stated): when a grid dimension is not positive before the clamp,
\* planning fails: no grid is produced and no canvas is painted.
C9_PlanningFails ==
    NonPositiveBeforeClamp =>
        /\ ~GridPlanned
        /\ processed_cells = 0
        /\ pc = "done" => err # None

\* C9 (amended): planning never fails; a grid dimension that is not positive
\* before the clamp (a factor <= 0, or a base smaller than factor-scaled
\* tile) becomes 1, no error is raised, and the render goes on to paint and
\* save a canvas of that grid.
C9_ClampedNotFailed ==
    (NonPositiveBeforeClamp /\ GridPlanned) =>
        /\ PyInt(base_size[1] * factor[1], tile_size[1] * factor[2]) <= 0 => grid[1] = 1
        /\ PyInt(base_size[2] * factor[1], tile_size[2] * factor[2]) <= 0 => grid[2] = 1
        /\ grid[1] >= 1 /\ grid[2] >= 1
        /\ err = None
        /\ pc = "done" => /\ processed_cells = grid[1] * grid[2]
                          /\ saved = mosaic_size
                          /\ saved # NoSize

\* a render with factor 0 has painted its single cell and saved the image
C9_Witness ==
    /\ factor[1] = 0
    /\ NonPositiveBeforeClamp
    /\ pc = "done"
    /\ processed_cells = 1
    /\ saved # NoSize

\* C10: the canvas is created with size (grid_w * tile_w, grid_h * tile_h),
\* and the image saved has that size: its width is a multiple of tile_w and
\* its height a multiple of tile_h.
C10_CanvasSize ==
    /\ mosaic_size # NoSize =>
          /\ mosaic_size = <<grid[1] * tile_size[1], grid[2] * tile_size[2]>>
          /\ DOMAIN mosaic_image = (0..(grid[1] * tile_size[1] - 1))
                                       \X (0..(grid[2] * tile_size[2] - 1))
    /\ saved # NoSize =>
          /\ saved = <<grid[1] * tile_size[1], grid[2] * tile_size[2]>>
          /\ saved[1] % tile_size[1] = 0
          /\ saved[2] % tile_size[2] = 0

\* an image was saved whose tiles are not square, whose grid has several
\* columns and whose size differs from the size of the base image
C10_Witness ==
    /\ saved # NoSize
    /\ tile_size[1] # tile_size[2]
    /\ grid[1] > 1
    /\ saved # base_size

\* the cell loop has run to its end
AssemblyComplete ==
    /\ pc \in {"assemble", "done"}
    /\ err = None
    /\ ~(r < grid[2] /\ c < grid[1])

\* the pixels the n-th paste wrote
PastedRect(n) ==
    {<<x, y>> : x \in calls[n].at[1]..(calls[n].at[1] + tile_size[1] - 1),
                y \in calls[n].at[2]..(calls[n].at[2] + tile_size[2] - 1)}

\* C11: no cell is painted twice and no two pasted rectangles share a pixel;
\* when the loop has ended every cell of the grid has been painted, the
\* rectangles together are the whole canvas, and no pixel is left blank.
C11_ExactCover ==
    /\ \A m, n \in DOMAIN calls :
           m # n => /\ calls[m].cell # calls[n].cell
                    /\ PastedRect(m) \cap PastedRect(n) = {}
    /\ AssemblyComplete =>
          /\ {calls[n].cell : n \in DOMAIN calls} = Cells(grid)
          /\ Len(calls) = grid[1] * grid[2]
          /\ UNION {PastedRect(n) : n \in DOMAIN calls} = DOMAIN mosaic_image
          /\ \A p \in DOMAIN mosaic_image : mosaic_image[p] # Blank

\* the loop has ended on a grid of several rows and columns of tiles that are
\* not square
C11_Witness ==
    /\ AssemblyComplete
    /\ grid[1] >= 2 /\ grid[2] >= 2
    /\ tile_size[1] # tile_size[2]
    /\ Len(calls) = grid[1] * grid[2]

\* C12: the n-th cell visited is cell ((n-1) mod grid_w, (n-1) div grid_w),
\* row after row with the columns ascending; its tile is pasted with its
\* top-left corner at (c * tile_w, r * tile_h): the pixels of that rectangle
\* become the tile's pixels and every other pixel keeps its value.
C12_RowMajorPaste ==
    [][calls' # calls =>
          LET n == Len(calls')
              call == Last(calls')
          IN  /\ call.cell = <<(n - 1) % grid[1], (n - 1) \div grid[1]>>
              /\ call.cell = <<c, r>>
              /\ call.at = <<call.cell[1] * tile_size[1], call.cell[2] * tile_size[2]>>
              /\ \A p \in DOMAIN mosaic_image :
                     mosaic_image'[p] =
                         IF /\ p[1] \in call.at[1]..(call.at[1] + tile_size[1] - 1)
                            /\ p[2] \in call.at[2]..(call.at[2] + tile_size[2] - 1)
                             THEN <<call.tile, p[1] - call.at[1], p[2] - call.at[2]>>
                             ELSE mosaic_image[p]]_vars

\* the loop has pasted a tile that is not square in a cell of the second row
\* and second column
C12_Witness ==
    /\ calls # <<>>
    /\ Last(calls).cell[1] >= 1 /\ Last(calls).cell[2] >= 1
    /\ tile_size[1] # tile_size[2]
    /\ mosaic_image[<<Last(calls).at[1], Last(calls).at[2]>>] = <<Last(calls).tile, 0, 0>>

EndToEnd == base_file.split = <<PureRed, PureBlue>>

\* the tile (its file number) whose average colour is col
TileOfColour(col) == At(tiles, FirstOf(TilesOfColour(col)))

\* C13: for the 100 x 100 base image that is red on the left and blue on the
\* right, tiles of 50 x 50, factor 1.0 and one red and one blue tile, the
\* canvas saved is 100 x 100, every 50 x 50 block of its left half is the red
\* tile and every block of its right half is the blue tile.
C13_EndToEnd ==
    (EndToEnd /\ pc = "done") =>
        /\ err = None
        /\ grid = <<2, 2>>
        /\ saved = <<100, 100>>
        /\ DOMAIN mosaic_image = (0..99) \X (0..99)
        /\ \A p \in DOMAIN mosaic_image :
               mosaic_image[p] =
                   <<TileOfColour(IF p[1] < 50 THEN PureRed ELSE PureBlue),
                     p[1] % 50, p[2] % 50>>

\* the render of the red and blue base image has saved its canvas, the blue
\* tile having been loaded before the red one
C13_Witness ==
    /\ EndToEnd
    /\ pc = "done"
    /\ saved # NoSize
    /\ tile_avg_colors = <<PureBlue, PureRed>>
    /\ base_small_for_avg[<<0, 0>>] # PureRed

\* ---------------------------------------------------------------- loading (claims)
\* load_tile_images has been called (it is called when the base image opened)
LoadCalled == pc \notin {"open_base", "load_tiles"} /\ base_file.exists

Ascending(s) == \A i, j \in DOMAIN s : i < j => s[i] < s[j]

\* the file numbers of a source whose file decodes / does not decode
Decoding(files) == {n \in 0..(Len(files) - 1) : At(files, n) # Corrupt}
Failing(files) == {n \in 0..(Len(files) - 1) : At(files, n) = Corrupt}

\* five candidates of which the third does not decode
FiveCandidates == [kind |-> "zip", files |-> <<Red, Blue, Corrupt, Black, Red>>]

\* C14: for a directory or an archive, the tiles loaded are exactly the files
\* that decode, in the order of enumeration, each with its own average colour,
\* and exactly the files that fail to decode are skipped with a warning; five
\* candidates of which one is corrupt give four tiles and one warning.
C14_SkipsOnlyFailures ==
    /\ (LoadCalled /\ source.kind \in {"dir", "zip"}) =>
           /\ Range(tiles) = Decoding(source.files)
           /\ Ascending(tiles)
           /\ Len(tile_avg_colors) = Len(tiles)
           /\ \A i \in DOMAIN tiles : tile_avg_colors[i] = At(source.files, tiles[i])
           /\ Range(warnings) = Failing(source.files)
           /\ Ascending(warnings)
    /\ load_tile_images(FiveCandidates).tiles = <<0, 1, 3, 4>>
    /\ load_tile_images(FiveCandidates).warnings = <<2>>
    /\ ~load_tile_images(FiveCandidates).raised

\* the render has saved a canvas after a load in which a file that does not
\* decode stood before one that does
C14_Witness ==
    /\ pc = "done"
    /\ saved # NoSize
    /\ \E i, j \in DOMAIN source.files :
           i < j /\ source.files[i] = Corrupt /\ source.files[j] # Corrupt
    /\ warnings # <<>>
    /\ tiles # <<>>

\* C15: load_tile_images does not return an empty tile list: when the source
\* is neither a directory nor an archive, or no file of it decodes, it raises
\* ValueError, and no later step (grouping, building the index) is reached
\* with zero tiles.
C15_NeverEmpty ==
    /\ pc \in {"group", "build_index", "plan", "canvas", "assemble"} => tiles # <<>>
    /\ kdtree # EmptyTree => Len(kdtree.data) > 0
    /\ (LoadCalled /\ (source.kind \notin {"dir", "zip"} \/ Decoding(source.files) = {})) =>
           /\ err = "ValueError"
           /\ tiles = <<>>
           /\ kdtree = EmptyTree
           /\ saved = NoSize

\* the load of a directory with files of which none decodes has raised
C15_Witness ==
    /\ LoadCalled
    /\ source.kind = "dir"
    /\ source.files # <<>>
    /\ Decoding(source.files) = {}
    /\ err = "ValueError"

\* ---------------------------------------------------------------- failures (claims)
\* C16: a render in which the base image is missing, the tile source is
\* invalid or no tile loads ends with an error outcome (a raised exception or
\* a non-zero exit) for the caller of generate_mosaic, never with a normal
\* return.
C16_FailurePropagates ==
    (pc = "done" /\ err # None) => outcome # "returned"

C18_NoPartialResult ==
    /\ saved # NoSize =>
           /\ err = None
           /\ processed_cells = grid[1] * grid[2]
           /\ {calls[n].cell : n \in DOMAIN calls} = Cells(grid)
           /\ \A p \in DOMAIN mosaic_image : mosaic_image[p] # Blank
           /\ saved = mosaic_size
    /\ err # None => saved = NoSize /\ pc \in {"except", "done"}

\* a canvas of several cells has been written
C18_Witness ==
    /\ saved # NoSize
    /\ processed_cells >= 2
    /\ outcome = "returned"

\* ---------------------------------------------------------------- independence (claims)
\* the canvas the loop of generatePhotoMosaicByTile.py leaves when it goes
\* from cell (col, row) to the last cell in row-major order
RECURSIVE RowMajorFrom(_, _, _)
RowMajorFrom(img, col, row) ==
    IF ~(row < grid[2] /\ col < grid[1]) THEN img
    ELSE LET best == find_best_match_tile_nearest(base_small_for_avg[<<col, row>>],
                                                  kdtree, tiles)
             at == PasteAt(col, row, tile_size)
             next == NextCell(col, row, grid)
         IN  RowMajorFrom(Paste(img, best.tile, tile_size, at[1], at[2]),
                          next[1], next[2])

RowMajorCanvas == RowMajorFrom([p \in Pixels(mosaic_size) |-> Blank], 0, 0)

\* C19: under the nearest policy, whatever the order in which the cells are
\* looked up and painted and however lookups and paints interleave, two cells
\* of the same colour get the same tile, every pixel painted so far has the
\* value the row-major loop gives it, and the finished canvas is the
\* row-major canvas.
C19_OrderIndependent ==
    policy = "nearest" =>
        /\ \A n, m \in DOMAIN calls :
               calls[n].target = calls[m].target => calls[n].tile = calls[m].tile
        /\ \A p \in DOMAIN mosaic_image :
               mosaic_image[p] # Blank => mosaic_image[p] = RowMajorCanvas[p]
        /\ processed_cells = grid[1] * grid[2] => mosaic_image = RowMajorCanvas

\* every cell has been painted, the first cell looked up not being the first
\* cell of the row-major order, and two cells have received different tiles
C19_Witness ==
    /\ policy = "nearest"
    /\ processed_cells = grid[1] * grid[2]
    /\ Len(calls) >= 3
    /\ calls[1].cell # <<0, 0>>
    /\ \E n, m \in DOMAIN calls : calls[n].tile # calls[m].tile

\* the colour group nearest to a cell colour
NearestGroup(target) == At(kdtree.data, KDQuery(kdtree, target))

\* the k-th (from 0) smallest element of a set of numbers
NthOf(S, k) == CHOOSE i \in S : Cardinality({j \in S : j < i}) = k

\* the number of calls before the n-th that matched the group the n-th matches
EarlierSameGroup(n) ==
    Cardinality({m \in 1..(n - 1) :
                    NearestGroup(calls[m].target) = NearestGroup(calls[n].target)})

\* the tile of the n-th call as a function of the tile list, the tree built
\* from it, the colour of the cell and the colours of the cells visited before
ExpectedTile(n) ==
    LET members == TilesOfColour(NearestGroup(calls[n].target))
    IN  At(tiles, NthOf(members, EarlierSameGroup(n) % Cardinality(members)))

\* C20: under the cycling policy, with fresh cursors, the tile chosen for the
\* n-th cell visited is determined by the tile list in load order, the index
\* built from it and the colours of the cells in visiting order: it is the
\* member of the colour group nearest to the cell colour whose position in
\* the group is the number of earlier cells that matched this group, modulo
\* the size of the group. Two renders with the same inputs and the same
\* visiting order therefore choose the same tile for every cell.
C20_CyclingDeterminism ==
    policy = "cycling" =>
        \A n \in DOMAIN calls :
            /\ calls[n].group = NearestGroup(calls[n].target)
            /\ calls[n].cursor = EarlierSameGroup(n) % Cardinality(TilesOfColour(calls[n].group))
            /\ calls[n].tile = ExpectedTile(n)

\* three cells, looked up in an order that is not row-major, have matched a
\* group of two tiles: the third call got the tile the first one got
C20_Witness ==
    /\ policy = "cycling"
    /\ Len(calls) = 3
    /\ calls[1].cell # <<0, 0>>
    /\ calls[1].group = calls[2].group /\ calls[2].group = calls[3].group
    /\ calls[1].tile # calls[2].tile
    /\ calls[3].tile = calls[1].tile

\* ---------------------------------------------------------------- frame (claims)
\* C21: a call of find_best_match_tile leaves the tile list, the tile colours,
\* the tree, the list of distinct colours, the keys of the map and every
\* group's indices as they were; a call that matched a group changes at most
\* the next_idx of that group, and a call that fell back after a failed query
\* changes no next_idx.
C21_OnlyMatchedCursor ==
    [][calls' # calls =>
          /\ tiles' = tiles
          /\ tile_avg_colors' = tile_avg_colors
          /\ kdtree' = kdtree
          /\ unique_colors_list' = unique_colors_list
          /\ DOMAIN color_to_indices_map' = DOMAIN color_to_indices_map
          /\ \A g \in DOMAIN color_to_indices_map :
                 /\ color_to_indices_map'[g].indices = color_to_indices_map[g].indices
                 /\ g # Last(calls').group =>
                        color_to_indices_map'[g].next_idx = color_to_indices_map[g].next_idx
          /\ Last(calls').msg # "none" => color_to_indices_map' = color_to_indices_map]_vars

\* with two colour groups, one of them of several tiles, a call has matched a
\* group and moved its cursor, and a later call has fallen back
C21_Witness ==
    /\ policy = "cycling"
    /\ Cardinality(DOMAIN color_to_indices_map) >= 2
    /\ \E g \in DOMAIN color_to_indices_map : color_to_indices_map[g].next_idx = 1
    /\ Len(calls) >= 2
    /\ calls[1].msg = "none"
    /\ Last(calls).msg = "error"
    /\ ~Last(calls).raised

\* ---------------------------------------------------------------- equivalence (claims)
\* C22: a group is opened for every average colour not exactly equal to one
\* seen before; when the loaded tiles have pairwise different average colours
\* every group has one tile, the colours indexed are the tile colours in load
\* order, and every call under the cycling policy returns the tile that
\* find_best_match_tile of generatePhotoMosaicByTile.py returns for the same
\* colour on the same tile list and index.
C22_CyclingEqualsNearest ==
    (policy = "cycling" /\ IndexBuilt /\ Distinct(tile_avg_colors)) =>
        /\ unique_colors_list = tile_avg_colors
        /\ \A g \in DOMAIN color_to_indices_map :
               Len(color_to_indices_map[g].indices) = 1
        /\ \A n \in DOMAIN calls :
               calls[n].tile =
                   find_best_match_tile_nearest(calls[n].target, kdtree, tiles).tile

\* three tiles of different colours, and cells of the same colour and of
\* different colours have been given their tiles under the cycling policy
C22_Witness ==
    /\ policy = "cycling"
    /\ Len(tiles) = 3
    /\ Distinct(tile_avg_colors)
    /\ Len(calls) = 3
    /\ calls[1].target = calls[2].target
    /\ calls[3].target # calls[1].target
    /\ calls[3].tile # calls[1].tile

\* ---------------------------------------------------------------- average colour (claims)
\* the number of pixels of the image that have colour col
Area(col) == Cardinality({i \in DOMAIN image : image[i] = col})

\* the sum over the colours of S of area times channel k
RECURSIVE WeightedSum(_, _)
WeightedSum(S, k) ==
    IF S = {} THEN 0
    ELSE LET col == CHOOSE x \in S : TRUE
         IN  Area(col) * col[k] + WeightedSum(S \ {col}, k)

\* C23: for an image that is not empty get_average_rgb returns three integers
\* of 0..255, each the largest integer not above the mean of its channel over
\* all pixels, the mean being the area-weighted mean of the colours present
\* (of the two colours, for an image of two solid parts); for an image of one
\* colour it returns that colour.
C23_TruncatedMean ==
    avg_color # NoColour =>
        /\ Len(avg_color) = 3
        /\ \A k \in 1..3 :
               /\ avg_color[k] \in 0..255
               /\ avg_color[k] * Len(image) <= WeightedSum(Range(image), k)
               /\ WeightedSum(Range(image), k) < (avg_color[k] + 1) * Len(image)
        /\ Cardinality(Range(image)) = 1 => avg_color = image[1]

\* the average of an image of two colours in unequal parts has been taken, a
\* mean that is not an integer having been cut to the integer below
C23_Witness ==
    /\ avg_color # NoColour
    /\ Cardinality(Range(image)) = 2
    /\ Area(image[1]) = 2
    /\ WeightedSum(Range(image), 1) % Len(image) # 0
    /\ avg_color[1] = 170

\* ---------------------------------------------------------------- grouping (claims)
\* the grouping loop has run to its end
Grouped == policy = "cycling" /\ pc \in {"build_index", "plan", "canvas", "assemble", "done"}
               /\ err = None

\* C24: once the tiles are grouped, every tile index 0..n-1 is in the indices
\* of exactly one group, the group keyed by the tile's average colour, and is
\* there once; every indices list is non-empty and strictly ascending;
\* unique_colors_list holds the keys of the map, each once, its first group
\* starts with tile 0, and once the tree is built its point i is
\* unique_colors_list[i]; no call takes the 'no tile group found' fallback.
C24_GroupsPartitionTiles ==
    Grouped =>
        /\ \A i \in 0..(Len(tiles) - 1) :
               \A g \in DOMAIN color_to_indices_map :
                   Cardinality({j \in DOMAIN color_to_indices_map[g].indices :
                                   color_to_indices_map[g].indices[j] = i})
                       = IF g = At(tile_avg_colors, i) THEN 1 ELSE 0
        /\ \A i \in 0..(Len(tiles) - 1) : At(tile_avg_colors, i) \in DOMAIN color_to_indices_map
        /\ \A g \in DOMAIN color_to_indices_map :
               /\ color_to_indices_map[g].indices # <<>>
               /\ Ascending(color_to_indices_map[g].indices)
               /\ Range(color_to_indices_map[g].indices) \subseteq 0..(Len(tiles) - 1)
        /\ Range(unique_colors_list) = DOMAIN color_to_indices_map
        /\ Distinct(unique_colors_list)
        /\ At(color_to_indices_map[At(unique_colors_list, 0)].indices, 0) = 0
        /\ IndexBuilt => kdtree.data = unique_colors_list
        /\ \A n \in DOMAIN calls : calls[n].msg = "none"

\* a render under the cycling policy is over, its tiles in two groups of
\* which the first opened has two tiles that are not neighbours in the list
C24_Witness ==
    /\ Grouped
    /\ pc = "done"
    /\ Len(unique_colors_list) = 2
    /\ color_to_indices_map[At(unique_colors_list, 0)].indices = <<0, 2>>
    /\ calls # <<>>

\* ---------------------------------------------------------------- termination (claims)
\* C25: a render that has entered the cell loop, for any grid of at least one
\* column and one row, leaves it after exactly grid_w * grid_h steps of
\* select and paste, processed_cells being total_cells, and saves the canvas.
C25_AssemblyTerminates ==
    (pc = "assemble" /\ grid[1] >= 1 /\ grid[2] >= 1) ~>
        (/\ pc = "done"
         /\ saved # NoSize
         /\ processed_cells = grid[1] * grid[2]
         /\ Len(calls) = grid[1] * grid[2]
         /\ err = None)

\* a loop over a grid of several rows and several columns has come to its end
C25_Witness ==
    /\ pc = "done"
    /\ grid[1] >= 2 /\ grid[2] >= 2
    /\ processed_cells = grid[1] * grid[2]
    /\ c = 0 /\ r = grid[2]

\* ---------------------------------------------------------------- prepare_directories (claims)
\* the last answer typed at a prompt, once stripped and put in upper case
\* ("" when the prompt was not shown)
Answered(prompt) ==
    LET given == SelectSeq(answers, LAMBDA a : a.prompt = prompt)
    IN  IF given = <<>> THEN "" ELSE StripUpper(Last(given).raw)

\* archive_existing_output was called and returned False
ArchiveFailed ==
    /\ should_archive
    /\ Answered("archive") = "Y"
    /\ Answered("proceed") # "N"
    /\ archive_dir.archives = <<>>
    /\ prep_pc \in {"returned", "exited", "finished", "crashed"}

\* C26: when archiving of the existing output was attempted and
\* archive_existing_output returned False, the output directory keeps the
\* files and subdirectories it had, prepare_directories returns False, and
\* main stops without processing an image or creating the final archive.
C26_FailedArchiveKeepsOutput ==
    ArchiveFailed =>
        /\ prep_result = "False"
        /\ output_dir.kind = "dir"
        /\ output_dir.files = file_count
        /\ file_count > 0
        /\ prep_pc \in {"returned", "exited"}
        /\ processed_files_count = 0
        /\ ~final_archive

\* the archive directory could not be created, or the zip file not written,
\* and main has stopped
C26_Witness ==
    /\ ArchiveFailed
    /\ prep_pc = "exited"
    /\ output_dir.subdirs = 1

\* a step of prepare_directories that removes files of the output directory
FilesRemoved == prep_result = "none" /\ output_dir'.files < output_dir.files

\* the contents of the output directory are in an archive written by this run
Archived ==
    /\ archive_dir.archives # <<>>
    /\ Last(archive_dir.archives) = [files |-> output_dir.files, subdirs |-> output_dir.subdirs]

\* a step in which the user answers N to the removal prompt
SaysNoToRemoval ==
    /\ answers' # answers
    /\ Last(answers').prompt = "remove"
    /\ StripUpper(Last(answers').raw) = "N"

\* a step in which the user types something that is neither Y nor N
SaysNeither == answers' # answers /\ StripUpper(Last(answers').raw) \notin {"Y", "N"}

\* nothing but the record of the answers changes
OnlyAnswersChange ==
    UNCHANGED <<prep_pc, input_dir, output_dir, archive_dir, file_count, should_archive,
                prep_result, processed_files_count, final_archive>>

\* C27 (as stated): files of the output directory are removed only after the
\* answer Y to the removal prompt and, when the answer to the archive prompt
\* was Y, only after they were archived; N to the removal prompt returns
\* False and leaves the directory as it was; any other answer changes nothing
\* and the prompt is shown again.
C27_RemovedOnlyIfArchived ==
    [][/\ FilesRemoved => /\ Answered("remove") = "Y"
                          /\ Answered("archive") = "Y" => Archived
       /\ SaysNoToRemoval => prep_result' = "False" /\ output_dir' = output_dir
       /\ SaysNeither => OnlyAnswersChange]_vars

\* C27 (amended): as above, but the archive is owed only when the user did
\* not answer N to the prompt 'Proceed with archiving?' that follows the
\* answer Y for more than 200 files.
C27_RemovedOnlyIfArchiveWanted ==
    [][/\ FilesRemoved => /\ Answered("remove") = "Y"
                          /\ Answered("archive") \in {"Y", "N"}
                          /\ (Answered("archive") = "Y" /\ Answered("proceed") # "N")
                                 => Archived
                          /\ Answered("proceed") # "" =>
                                 (Answered("archive") = "Y" /\ file_count > ArchiveWarnLimit)
       /\ SaysNoToRemoval => prep_result' = "False" /\ output_dir' = output_dir
       /\ SaysNeither => OnlyAnswersChange]_vars

\* the files were archived and removed after a first answer to the removal
\* prompt that was neither Y nor N
C27_Witness ==
    /\ output_dir = NoDir
    /\ prep_pc = "ensure"
    /\ file_count > 0
    /\ archive_dir.archives # <<>>
    /\ Len(answers) >= 3
    /\ StripUpper(answers[1].raw) \notin {"Y", "N"}
    /\ Answered("remove") = "Y"

\* C28: when prepare_directories returns True the output directory exists,
\* is a directory and holds neither files nor subdirectories.
C28_OutputDirEmpty ==
    (prep_pc = "returned" /\ prep_result = "True") =>
        /\ output_dir.kind = "dir"
        /\ output_dir.files = 0
        /\ output_dir.subdirs = 0

====
